---- MODULE Spec2Model ----
(***************************************************************************)
(* The interpreter of src/src/main.rs: the operation list (OpList), the    *)
(* memory tape (Memory) and the execution loop of main.                    *)
(*                                                                         *)
(* Positions and pointers are 0-based as in the source; TLA+ sequences are *)
(* 1-based, so the instruction at position p is o[p + 1] and the cell at   *)
(* pointer p is data[p + 1].                                               *)
(***************************************************************************)
EXTENDS Integers, Sequences, FiniteSets, TLC

VARIABLES
    program_string, \* the text of the program file
    ops,            \* op_list.ops: the decoded program
    pos,            \* op_list.pos
    ptr,            \* mem.ptr
    data,           \* mem.data
    total_ops,      \* total_ops: the step counter
    line,           \* the line read from stdin, as supplied
    input,          \* input: the reversed line, popped from its end
    output,         \* output: the accumulated output
    max_steps,      \* Option<usize>: << >> is None, <<k>> is Some(k)
    show_preview,   \* --preview
    status,         \* "running", "exited" (the loop was left) or a panic
    summary,        \* what lines 174-181 printed
    prev            \* history: << >>, or <<m>> with m the machine before the last step

vars == <<program_string, ops, pos, ptr, data, total_ops, line, input, output, max_steps,
          show_preview, status, summary, prev>>

----------------------------------------------------------------------------
(* Bounds of the model *)

\* longest program enumerated over the full instruction set
MaxProgLen == 3
\* longest input line, its newline included
MaxInput == 1
\* largest configured step limit
MaxLimit == 3
\* cap on the step counter of a run without a limit
MaxSteps == 10
\* length of the straight-line increment/decrement programs of SpecCell
MaxArith == 260
\* largest number of increments in the programs of SpecLoop
MaxLoopCount == 256
\* longest program file of SpecFilter
MaxSourceLen == 5
\* longest program of SpecScan
MaxScanLen == 6

----------------------------------------------------------------------------
(* enum Op *)

Left == "Left"
Right == "Right"
Incr == "Incr"
Decr == "Decr"
Out == "Out"
In == "In"
Open == "Open"
Close == "Close"

Op == {Left, Right, Incr, Decr, Out, In, Open, Close}

\* unreachable!("string contains illegal characters")
Unreachable == "unreachable"

from_char(c) ==
    CASE c = "<" -> Left
      [] c = ">" -> Right
      [] c = "+" -> Incr
      [] c = "-" -> Decr
      [] c = "." -> Out
      [] c = "," -> In
      [] c = "[" -> Open
      [] c = "]" -> Close
      [] OTHER -> Unreachable

to_char(op) ==
    CASE op = Left -> "<"
      [] op = Right -> ">"
      [] op = Incr -> "+"
      [] op = Decr -> "-"
      [] op = Out -> "."
      [] op = In -> ","
      [] op = Open -> "["
      [] op = Close -> "]"

----------------------------------------------------------------------------
(* Constants of the program *)

\* Vec<u8>: a cell holds 0..255
CellMod == 256

\* Memory::display, CHUNK_SIZE (16 in the source, scaled down)
CHUNK_SIZE == 1
\* Memory::display, CHUNKS_DISPLAYED
CHUNKS_DISPLAYED == 4
\* OpList::display, DISPLAYED_RANGE
DISPLAYED_RANGE == 10

\* Memory::DEFAULT_MEMORY_CAPACITY: 65536 = 1024 display windows of 64 cells
\* in the source, scaled down to one display window
DEFAULT_MEMORY_CAPACITY == CHUNKS_DISPLAYED * CHUNK_SIZE

----------------------------------------------------------------------------
(* Helpers *)

Repeat(x, n) == [i \in 1..n |-> x]

SeqsUpTo(S, n) == UNION {[1..k -> S] : k \in 0..n}

Reverse(s) == [i \in 1..Len(s) |-> s[Len(s) + 1 - i]]

Max(a, b) == IF a >= b THEN a ELSE b

Min(a, b) == IF a <= b THEN a ELSE b

Contains(s, x) == \E i \in 1..Len(s) : s[i] = x

----------------------------------------------------------------------------
(* Panics.  A panic aborts the process: the machine is frozen as it was    *)
(* when the step began and only status records the abort.                  *)

\* assert!(self.ptr != 0, "Pointer out of bounds (left)")
PanicLeft == "panic: Pointer out of bounds (left)"
\* an index or slice out of range (self.data[self.ptr], self.ops[self.pos],
\* self.data[start..end]); pos -= 1 at 0 ends here as well: a debug build
\* panics on the subtraction, a release build wraps and panics on the index
PanicBounds == "panic: index out of bounds"
\* unreachable! in Op::from_char
PanicUnreachable == "panic: string contains illegal characters"

Panicked(s) == s \in {PanicLeft, PanicBounds, PanicUnreachable}

Panic(m, kind) == [m EXCEPT !.status = kind]

----------------------------------------------------------------------------
(* struct Memory, on a machine record m *)

Memory_new == [ptr |-> 0, data |-> Repeat(0, DEFAULT_MEMORY_CAPACITY)]

\* self.data[self.ptr] is in range
InRange(m) == m.ptr < Len(m.data)

read(m) == m.data[m.ptr + 1]

set(m, v) == [m EXCEPT !.data = [m.data EXCEPT ![m.ptr + 1] = v]]

\* left without the assert: the pointer stays at 0
left_saturating(m) == [m EXCEPT !.ptr = IF m.ptr = 0 THEN 0 ELSE m.ptr - 1]

left(m) ==
    IF m.ptr = 0 THEN Panic(m, PanicLeft)
    ELSE [m EXCEPT !.ptr = m.ptr - 1]

right(m) ==
    LET grown == IF m.ptr >= Len(m.data)
                 THEN m.data \o Repeat(0, DEFAULT_MEMORY_CAPACITY)
                 ELSE m.data
    IN [m EXCEPT !.data = grown, !.ptr = m.ptr + 1]

\* incr that saturates at 255 instead of wrapping
incr_saturating(m) ==
    IF ~InRange(m) THEN Panic(m, PanicBounds)
    ELSE set(m, Min(read(m) + 1, CellMod - 1))

incr(m) ==
    IF ~InRange(m) THEN Panic(m, PanicBounds)
    ELSE set(m, (read(m) + 1) % CellMod)

decr(m) ==
    IF ~InRange(m) THEN Panic(m, PanicBounds)
    ELSE set(m, (read(m) - 1) % CellMod)

\* Memory::display prints self.data[start..end]; TRUE when the slice is in range
Memory_display(m) ==
    LET chunk_ptr == m.ptr - (m.ptr % CHUNK_SIZE)
        start == Max(chunk_ptr - 2 * CHUNK_SIZE, 0)
        end == start + CHUNKS_DISPLAYED * CHUNK_SIZE
    IN end <= Len(m.data)

----------------------------------------------------------------------------
(* struct OpList *)

OpList_new(operations) ==
    [pos |-> 0, ops |-> [i \in 1..Len(operations) |-> from_char(operations[i])]]

get(o, p) == o[p + 1]

\* OpList::display prints ops[start..=end]; TRUE when the slice is in range
OpList_display(o, p) ==
    LET start == Max(p - DISPLAYED_RANGE, 0)
        end == Min(p + DISPLAYED_RANGE, Len(o) - 1)
    IN Len(o) >= 1 /\ start <= end + 1 /\ end < Len(o)

\* the forward scan that stops one position past the Close it found
RECURSIVE ScanForward_past(_, _, _)
ScanForward_past(o, p, n) ==
    IF p >= Len(o) THEN -1
    ELSE IF get(o, p) = Close /\ n = 0 THEN p + 1
    ELSE ScanForward_past(o, p + 1,
                          IF get(o, p) = Open THEN n + 1
                          ELSE IF get(o, p) = Close THEN n - 1
                          ELSE n)

\* the forward scan without the n_brackets count: stops at the first Close
RECURSIVE ScanForward_first_close(_, _, _)
ScanForward_first_close(o, p, n) ==
    IF p >= Len(o) THEN -1
    ELSE IF get(o, p) = Close THEN p
    ELSE ScanForward_first_close(o, p + 1, n)

\* The while loop of the Op::Open branch, entered with op_list.pos = p and
\* n_brackets = n: the position it stops at, or -1 when op_list.get() is
\* called with pos past the end of ops
RECURSIVE ScanForward(_, _, _)
ScanForward(o, p, n) ==
    IF p >= Len(o) THEN -1
    ELSE IF get(o, p) = Close /\ n = 0 THEN p
    ELSE ScanForward(o, p + 1,
                     IF get(o, p) = Open THEN n + 1
                     ELSE IF get(o, p) = Close THEN n - 1
                     ELSE n)

\* the backward scan without the n_brackets count: stops at the first Open
RECURSIVE ScanBackward_first_open(_, _, _)
ScanBackward_first_open(o, p, n) ==
    IF p < 0 THEN -1
    ELSE IF get(o, p) = Open THEN p
    ELSE ScanBackward_first_open(o, p - 1, n)

\* the backward scan that never decrements n_brackets at an Open
RECURSIVE ScanBackward_no_decrement(_, _, _)
ScanBackward_no_decrement(o, p, n) ==
    IF p < 0 THEN -1
    ELSE IF get(o, p) = Open /\ n = 0 THEN p
    ELSE ScanBackward_no_decrement(o, p - 1,
                                   IF get(o, p) = Close THEN n + 1 ELSE n)

\* The while loop of the Op::Close branch, entered with op_list.pos = p
\* (p = -1: pos -= 1 was applied to 0) and n_brackets = n: the position it
\* stops at, or -1 when pos is decremented below 0
RECURSIVE ScanBackward(_, _, _)
ScanBackward(o, p, n) ==
    IF p < 0 THEN -1
    ELSE IF get(o, p) = Open /\ n = 0 THEN p
    ELSE ScanBackward(o, p - 1,
                      IF get(o, p) = Close THEN n + 1
                      ELSE IF get(o, p) = Open THEN n - 1
                      ELSE n)

----------------------------------------------------------------------------
(* The body of the execution loop, on a machine record m *)

\* Op::Out that puts the new character in front of the output
OpOut_prepend(m) ==
    IF ~InRange(m) THEN Panic(m, PanicBounds)
    ELSE [m EXCEPT !.output = <<read(m)>> \o m.output]

\* Op::Out that clears the cell it has printed
OpOut_consuming(m) ==
    IF ~InRange(m) THEN Panic(m, PanicBounds)
    ELSE [set(m, 0) EXCEPT !.output = Append(m.output, read(m))]

\* Op::Out, lines 122-128: mem.read() as char is pushed to output
OpOut(m) ==
    IF ~InRange(m) THEN Panic(m, PanicBounds)
    ELSE [m EXCEPT !.output = Append(m.output, read(m))]

\* Op::In that stores 0 when no input remains
OpIn_zero_at_end(m) ==
    IF ~InRange(m) THEN Panic(m, PanicBounds)
    ELSE IF m.input = << >> THEN set(m, 0)
    ELSE LET c == m.input[Len(m.input)]
             popped == [m EXCEPT !.input = SubSeq(m.input, 1, Len(m.input) - 1)]
         IN set(popped, c % CellMod)

\* Op::In, lines 129-133: input.pop() takes the last character; c as u8
\* keeps its low 8 bits
OpIn(m) ==
    IF m.input = << >> THEN m
    ELSE IF ~InRange(m) THEN Panic(m, PanicBounds)
    ELSE LET c == m.input[Len(m.input)]
             popped == [m EXCEPT !.input = SubSeq(m.input, 1, Len(m.input) - 1)]
         IN set(popped, c % CellMod)

\* Op::Open, lines 134-146 (the arm's guard reads the cell)
OpOpen(o, m) ==
    IF ~InRange(m) THEN Panic(m, PanicBounds)
    ELSE IF read(m) = 0
    THEN LET q == ScanForward(o, m.pos + 1, 0)
         IN IF q < 0 THEN Panic(m, PanicBounds) ELSE [m EXCEPT !.pos = q]
    ELSE m

\* Op::Close with the test of the cell inverted
OpClose_inverted(o, m) ==
    IF ~InRange(m) THEN Panic(m, PanicBounds)
    ELSE IF read(m) = 0
    THEN LET q == ScanBackward(o, m.pos - 1, 0)
         IN IF q < 0 THEN Panic(m, PanicBounds) ELSE [m EXCEPT !.pos = q]
    ELSE m

\* Op::Close, lines 147-159 (the arm's guard reads the cell)
OpClose(o, m) ==
    IF ~InRange(m) THEN Panic(m, PanicBounds)
    ELSE IF read(m) # 0
    THEN LET q == ScanBackward(o, m.pos - 1, 0)
         IN IF q < 0 THEN Panic(m, PanicBounds) ELSE [m EXCEPT !.pos = q]
    ELSE m

\* the match of lines 117-161
Dispatch(o, m) ==
    LET op == get(o, m.pos) IN
    CASE op = Left -> left(m)
      [] op = Right -> right(m)
      [] op = Incr -> incr(m)
      [] op = Decr -> decr(m)
      [] op = Out -> OpOut(m)
      [] op = In -> OpIn(m)
      [] op = Open -> OpOpen(o, m)
      [] op = Close -> OpClose(o, m)

\* the preview of lines 111-114 does not panic
PreviewOk(o, preview, m) ==
    preview => (OpList_display(o, m.pos) /\ Memory_display(m))

\* one iteration of the while loop, lines 111-171
Exec(o, preview, m) ==
    IF ~PreviewOk(o, preview, m) THEN Panic(m, PanicBounds)
    ELSE LET d == Dispatch(o, m)
         IN IF d.status # "running" THEN d
            ELSE [d EXCEPT !.pos = d.pos + 1, !.total_ops = d.total_ops + 1]

\* the loop condition with the limit compared by <=
LoopCond_inclusive(o, limit, m) ==
    /\ m.pos < Len(o)
    /\ IF limit = << >> THEN TRUE ELSE m.total_ops <= limit[1]

\* the condition of the while loop, lines 108-109
LoopCond(o, limit, m) ==
    /\ m.pos < Len(o)
    /\ IF limit = << >> THEN TRUE ELSE m.total_ops < limit[1]

----------------------------------------------------------------------------
(* The program string, lines 84-90 *)

ALLOWED_CHARS == {"<", ">", "+", "-", ".", ",", "[", "]"}

\* str::lines: the text split at its newlines; a final newline ends the last
\* line and starts no further one
RECURSIVE lines(_)
lines(s) ==
    IF s = << >> THEN << >>
    ELSE IF ~Contains(s, "\n") THEN <<s>>
    ELSE LET i == CHOOSE j \in 1..Len(s) :
                      s[j] = "\n" /\ \A k \in 1..(j - 1) : s[k] # "\n"
         IN <<SubSeq(s, 1, i - 1)>> \o lines(SubSeq(s, i + 1, Len(s)))

starts_with(l, prefix) ==
    /\ Len(l) >= Len(prefix)
    /\ SubSeq(l, 1, Len(prefix)) = prefix

\* flat_map(|line| line.chars()) over the sequence of lines ls
RECURSIVE Flatten(_)
Flatten(ls) ==
    IF ls = << >> THEN << >> ELSE Head(ls) \o Flatten(Tail(ls))

IsAllowed(c) == c \in ALLOWED_CHARS

NotComment(l) == ~starts_with(l, <<"/", "/">>)

\* the filter that keeps the comment lines
FilterSource_keeps_comments(text) ==
    SelectSeq(Flatten(lines(text)), IsAllowed)

\* let program = program_string.lines().filter(..).flat_map(..).filter(..).collect()
FilterSource(text) ==
    SelectSeq(Flatten(SelectSeq(lines(text), NotComment)), IsAllowed)

\* the text of a decoded program
ToText(p) == [i \in 1..Len(p) |-> to_char(p[i])]

----------------------------------------------------------------------------
(* The state machine *)

Machine ==
    [pos |-> pos, ptr |-> ptr, data |-> data, total_ops |-> total_ops,
     input |-> input, output |-> output, status |-> status]

\* the machine main builds before the loop, lines 92-105
InitMachine(l) ==
    [pos |-> OpList_new(<< >>).pos, ptr |-> Memory_new.ptr, data |-> Memory_new.data,
     total_ops |-> 0, input |-> Reverse(l), output |-> << >>, status |-> "running"]

\* two-level nested loops with an optional instruction before, between and after
Filler == {<< >>} \cup {<<o>> : o \in {Incr, Decr, Right, Left}}

NestedPrograms ==
    {a \o <<Open>> \o b \o <<Open>> \o c \o <<Close>> \o d \o <<Close>> :
        a \in Filler, b \in Filler, c \in Filler, d \in Filler}

\* a walk to the last cell of the fresh tape, or one cell further, then any
\* shorter program
WalkPrograms ==
    {Repeat(Right, n) \o t :
        n \in {DEFAULT_MEMORY_CAPACITY - 1, DEFAULT_MEMORY_CAPACITY},
        t \in SeqsUpTo(Op, MaxProgLen - 1)}

Programs == SeqsUpTo(Op, MaxProgLen) \cup WalkPrograms \cup NestedPrograms

\* stdin().read_line: characters other than the newline, then the newline
\* unless the input ended first; 300 is a character above U+00FF
InputChars == {65, 300}

InputLines ==
    LET bodies == SeqsUpTo(InputChars, MaxInput)
    IN bodies \cup {b \o <<10>> : b \in {c \in bodies : Len(c) < MaxInput}}

\* no limit, or a limit of no step, of one step, or the largest one
Limits == {<< >>} \cup {<<k>> : k \in {0, 1, MaxLimit}}

NoSummary == [printed |-> FALSE, steps |-> 0, out |-> << >>]

InitWith(programs, stdin_lines, limits, previews) ==
    /\ program_string \in {ToText(p) : p \in programs}
    /\ ops = OpList_new(FilterSource(program_string)).ops
    /\ line \in (IF Contains(FilterSource(program_string), ",") THEN stdin_lines ELSE {<< >>})
    /\ max_steps \in limits
    /\ show_preview \in previews
    /\ pos = InitMachine(line).pos
    /\ ptr = InitMachine(line).ptr
    /\ data = InitMachine(line).data
    /\ total_ops = InitMachine(line).total_ops
    /\ input = InitMachine(line).input
    /\ output = InitMachine(line).output
    /\ status = InitMachine(line).status
    /\ summary = NoSummary
    /\ prev = << >>

Init == InitWith(Programs, InputLines, Limits, BOOLEAN)

\* one iteration of the loop with the instruction o at the current position;
\* cap bounds the step counter of the model
StepCapped(o, cap) ==
    /\ status = "running"
    /\ LoopCond(ops, max_steps, Machine)
    /\ total_ops < cap
    /\ get(ops, pos) = o
    /\ LET r == Exec(ops, show_preview, Machine)
       IN /\ pos' = r.pos
          /\ ptr' = r.ptr
          /\ data' = r.data
          /\ total_ops' = r.total_ops
          /\ input' = r.input
          /\ output' = r.output
          /\ status' = r.status
    /\ prev' = <<Machine>>
    /\ UNCHANGED <<program_string, ops, line, max_steps, show_preview, summary>>

Step(o) == StepCapped(o, MaxSteps)

StepLeft == Step(Left)
StepRight == Step(Right)
StepIncr == Step(Incr)
StepDecr == Step(Decr)
StepOut == Step(Out)
StepIn == Step(In)
StepOpen == Step(Open)
StepClose == Step(Close)

\* the loop is left and the summary of lines 174-181 is printed
Exit ==
    /\ status = "running"
    /\ ~LoopCond(ops, max_steps, Machine)
    /\ status' = "exited"
    /\ summary' = [printed |-> TRUE, steps |-> total_ops, out |-> output]
    /\ UNCHANGED <<program_string, ops, pos, ptr, data, total_ops, line, input,
                   output, max_steps, show_preview, prev>>

Next ==
    \/ StepLeft
    \/ StepRight
    \/ StepIncr
    \/ StepDecr
    \/ StepOut
    \/ StepIn
    \/ StepOpen
    \/ StepClose
    \/ Exit

Spec == Init /\ [][Next]_vars

----------------------------------------------------------------------------
(* SpecCell: straight-line programs of increments and decrements, run by   *)
(* the execution loop                                                      *)

CellPrograms ==
    {Repeat(Incr, a) \o Repeat(Decr, MaxArith - a) : a \in 0..MaxArith}
        \cup {Repeat(Decr, a) \o Repeat(Incr, MaxArith - a) : a \in 0..MaxArith}

InitCell == InitWith(CellPrograms, {<< >>}, {<< >>}, {FALSE})

CellIncr == StepCapped(Incr, MaxArith)
CellDecr == StepCapped(Decr, MaxArith)

NextCell ==
    \/ CellIncr
    \/ CellDecr
    \/ Exit

SpecCell == InitCell /\ [][NextCell]_vars

----------------------------------------------------------------------------
(* SpecLoop: n increments followed by the loop [-], run by the execution   *)
(* loop without a step limit; the loop is sequential and always takes its  *)
(* next step                                                               *)

LoopPrograms == {Repeat(Incr, n) \o <<Open, Decr, Close>> : n \in 1..MaxLoopCount}

InitLoop == InitWith(LoopPrograms, {<< >>}, {<< >>}, {FALSE})

\* n increments, the Open, and at most n times the body and the Close
LoopCap == 3 * MaxLoopCount + 1

LoopIncr == StepCapped(Incr, LoopCap)
LoopDecr == StepCapped(Decr, LoopCap)
LoopOpen == StepCapped(Open, LoopCap)
LoopClose == StepCapped(Close, LoopCap)

NextLoop ==
    \/ LoopIncr
    \/ LoopDecr
    \/ LoopOpen
    \/ LoopClose
    \/ Exit

SpecLoop == InitLoop /\ [][NextLoop]_vars /\ WF_vars(NextLoop)

----------------------------------------------------------------------------
(* SpecFilter: the program string and the operation list built from every  *)
(* short program file                                                      *)

\* characters of a program file: the comment marker, the newline, two
\* instructions and a character that is no instruction
SourceChars == {"/", "\n", "+", "]", " "}

Sources == SeqsUpTo(SourceChars, MaxSourceLen)

InitFilter ==
    /\ program_string \in Sources
    /\ ops = << >>
    /\ line = << >>
    /\ max_steps = << >>
    /\ show_preview = FALSE
    /\ pos = InitMachine(line).pos
    /\ ptr = InitMachine(line).ptr
    /\ data = InitMachine(line).data
    /\ total_ops = InitMachine(line).total_ops
    /\ input = InitMachine(line).input
    /\ output = InitMachine(line).output
    /\ status = "loading"
    /\ summary = NoSummary
    /\ prev = << >>

\* lines 85-92: the program string is filtered and decoded
LoadProgram ==
    /\ status = "loading"
    /\ LET built == OpList_new(FilterSource(program_string))
       IN /\ ops' = built.ops
          /\ pos' = built.pos
          /\ status' = IF Contains(built.ops, Unreachable)
                       THEN PanicUnreachable ELSE "running"
    /\ UNCHANGED <<program_string, ptr, data, total_ops, line, input, output,
                   max_steps, show_preview, summary, prev>>

NextFilter ==
    \/ LoadProgram

SpecFilter == InitFilter /\ [][NextFilter]_vars

----------------------------------------------------------------------------
(* SpecScan: the two bracket scans applied to every bracket position of    *)
(* every short program                                                     *)

ScanPrograms == SeqsUpTo({Open, Close, Incr}, MaxScanLen)

InitScan ==
    /\ program_string \in {ToText(p) : p \in ScanPrograms}
    /\ ops = OpList_new(FilterSource(program_string)).ops
    /\ pos \in {p \in 0..(Len(ops) - 1) : get(ops, p) \in {Open, Close}}
    /\ line = << >>
    /\ max_steps = << >>
    /\ show_preview = FALSE
    /\ ptr = InitMachine(line).ptr
    /\ data = InitMachine(line).data
    /\ total_ops = InitMachine(line).total_ops
    /\ input = InitMachine(line).input
    /\ output = InitMachine(line).output
    /\ status = InitMachine(line).status
    /\ summary = NoSummary
    /\ prev = << >>

\* land on the position a scan stopped at, or panic
Land(q) ==
    /\ IF q < 0
       THEN pos' = pos /\ status' = PanicBounds
       ELSE pos' = q /\ status' = status
    /\ prev' = <<Machine>>
    /\ UNCHANGED <<program_string, ops, ptr, data, total_ops, line, input, output,
                   max_steps, show_preview, summary>>

\* the forward scan of the Op::Open branch, from the Open at pos
ScanOpen ==
    /\ status = "running"
    /\ pos < Len(ops)
    /\ get(ops, pos) = Open
    /\ Land(ScanForward(ops, pos + 1, 0))

\* the backward scan of the Op::Close branch, from the Close at pos
ScanClose ==
    /\ status = "running"
    /\ pos < Len(ops)
    /\ get(ops, pos) = Close
    /\ Land(ScanBackward(ops, pos - 1, 0))

NextScan ==
    \/ ScanOpen
    \/ ScanClose

SpecScan == InitScan /\ [][NextScan]_vars

----------------------------------------------------------------------------
(* Vocabulary of the properties *)

\* nesting depth after the first i instructions of o
RECURSIVE Depth(_, _)
Depth(o, i) ==
    IF i = 0 THEN 0
    ELSE Depth(o, i - 1) + (IF o[i] = Open THEN 1 ELSE IF o[i] = Close THEN -1 ELSE 0)

\* balanced brackets: no prefix closes more than it opens, nothing left open
WellFormed(o) ==
    /\ \A i \in 0..Len(o) : Depth(o, i) >= 0
    /\ Depth(o, Len(o)) = 0

\* standard matching, by depth: the partner of the Open at position p is the
\* first Close after it that brings the depth back to the depth before p
MatchingClose(o, p) ==
    CHOOSE q \in (p + 1)..(Len(o) - 1) :
        /\ get(o, q) = Close
        /\ Depth(o, q + 1) = Depth(o, p)
        /\ \A r \in (p + 1)..(q - 1) : Depth(o, r + 1) > Depth(o, p)

\* the partner of the Close at position q is the last Open before it at the
\* depth the Close returns to
MatchingOpen(o, q) ==
    CHOOSE p \in 0..(q - 1) :
        /\ get(o, p) = Open
        /\ Depth(o, p) = Depth(o, q + 1)
        /\ \A r \in (p + 1)..(q - 1) : Depth(o, r + 1) > Depth(o, p)

\* a step has been taken; Before is the machine it started from
Stepped == prev # << >>
Before == prev[1]

\* the last step got past the preview and dispatched the instruction op, and
\* the loop has not been left since
Dispatched(op) ==
    /\ Stepped
    /\ status # "exited"
    /\ Before.pos < Len(ops)
    /\ get(ops, Before.pos) = op
    /\ PreviewOk(ops, show_preview, Before)

FreshTape(d) == \A i \in 1..Len(d) : d[i] = 0

----------------------------------------------------------------------------
(* Properties *)

\* C1: between two steps of a run the pointer is a valid index of the tape,
\* 0 <= ptr < len, also after a move right from the last cell.
C1_PointerInRange ==
    status = "running" => (0 <= ptr /\ ptr < Len(data))

\* C2: a move right with ptr + 1 = len first appends one block of zero cells,
\* so the tape grows by exactly one block, ptr advances by 1 and the cell
\* under it reads 0; in every other case the length is unchanged and ptr
\* advances by 1.  The tape never gets shorter.
C2_RightGrowsAtLastCell ==
    /\ Stepped => Len(data) >= Len(Before.data)
    /\ Dispatched(Right) =>
          /\ status = "running"
          /\ ptr = Before.ptr + 1
          /\ Len(data) = (IF Before.ptr + 1 = Len(Before.data)
                          THEN Len(Before.data) + DEFAULT_MEMORY_CAPACITY
                          ELSE Len(Before.data))
          /\ (Before.ptr + 1 = Len(Before.data) => data[ptr + 1] = 0)

\* C3: in a well-formed program a step at an Open with the current cell 0
\* leaves pos just past the matching Close (standard nesting); with the cell
\* non-zero it leaves pos at p + 1.  The tape is unchanged either way.
C3_OpenJump ==
    (Dispatched(Open) /\ WellFormed(ops) /\ InRange(Before)) =>
        /\ status = "running"
        /\ pos = (IF read(Before) = 0 THEN MatchingClose(ops, Before.pos) + 1
                  ELSE Before.pos + 1)
        /\ ptr = Before.ptr
        /\ data = Before.data

\* C3 witness: a taken forward jump over a nested loop
C3_Witness ==
    /\ Dispatched(Open) /\ WellFormed(ops) /\ InRange(Before)
    /\ read(Before) = 0
    /\ status = "running"
    /\ \E i \in (Before.pos + 1)..(pos - 2) : get(ops, i) = Open

\* C4: in a well-formed program a step at a Close with the current cell
\* non-zero leaves pos just past the matching Open (standard nesting), on the
\* first instruction of the loop body; with the cell 0 it leaves pos at p + 1.
C4_CloseJump ==
    (Dispatched(Close) /\ WellFormed(ops) /\ InRange(Before)) =>
        /\ status = "running"
        /\ pos = (IF read(Before) # 0 THEN MatchingOpen(ops, Before.pos) + 1
                  ELSE Before.pos + 1)

\* C4 witness: a taken backward jump over a nested loop
C4_Witness ==
    /\ Dispatched(Close) /\ WellFormed(ops) /\ InRange(Before)
    /\ read(Before) # 0
    /\ status = "running"
    /\ \E i \in pos..(Before.pos - 1) : get(ops, i) = Close

\* C5: in a well-formed program the two scans are inverse: the backward scan
\* from the Close found by the forward scan from an Open at p returns p, the
\* forward scan from the Open found by the backward scan from a Close at q
\* returns q, and every pair has its Open before its Close.
C5_ScansAreInverse ==
    WellFormed(ops) =>
        /\ \A p \in 0..(Len(ops) - 1) :
              /\ get(ops, p) = Open =>
                    LET q == ScanForward(ops, p + 1, 0)
                    IN /\ q > p
                       /\ get(ops, q) = Close
                       /\ ScanBackward(ops, q - 1, 0) = p
              /\ get(ops, p) = Close =>
                    LET r == ScanBackward(ops, p - 1, 0)
                    IN /\ r >= 0
                       /\ r < p
                       /\ get(ops, r) = Open
                       /\ ScanForward(ops, r + 1, 0) = p
        /\ Stepped =>
              /\ status = "running"
              /\ get(ops, Before.pos) = Open =>
                    (Before.pos < pos /\ ScanBackward(ops, pos - 1, 0) = Before.pos)
              /\ get(ops, Before.pos) = Close =>
                    (pos < Before.pos /\ ScanForward(ops, pos + 1, 0) = Before.pos)

\* C5 witness: the backward scan has landed on the Open of a loop that holds
\* a nested loop, and the forward scan from there finds the Close it came from
C5_Witness ==
    /\ Stepped /\ WellFormed(ops)
    /\ get(ops, Before.pos) = Close
    /\ get(ops, pos) = Open
    /\ ScanForward(ops, pos + 1, 0) = Before.pos
    /\ \E i \in (pos + 1)..(Before.pos - 1) : get(ops, i) = Open

\* C6: a program with unbalanced brackets is rejected when it is built: no
\* step is ever taken, tape and output stay as constructed, and the run
\* never ends as a normal completion.
C6_MalformedNeverRuns ==
    ~WellFormed(ops) =>
        /\ ~Stepped
        /\ total_ops = 0
        /\ Len(data) = DEFAULT_MEMORY_CAPACITY /\ FreshTape(data)
        /\ output = << >>
        /\ ~(status = "exited" /\ pos >= Len(ops))

\* C7: a move left with ptr = 0 halts the run fatally at that step: the
\* pointer does not wrap or change, nothing is executed or changed afterwards;
\* with ptr > 0 the move sets ptr to ptr - 1 and does not fail.
C7_LeftAtZeroIsFatal ==
    /\ Dispatched(Left) =>
          IF Before.ptr = 0
          THEN /\ status = PanicLeft
               /\ ptr = 0
               /\ pos = Before.pos
               /\ total_ops = Before.total_ops
               /\ data = Before.data
               /\ output = Before.output
          ELSE /\ status = "running"
               /\ ptr = Before.ptr - 1
    /\ status = PanicLeft => ~ENABLED Next

\* C7 witness: a run halted by a move left at ptr = 0, after earlier steps and
\* with instructions left to execute
C7_Witness ==
    /\ Dispatched(Left)
    /\ Before.ptr = 0
    /\ status = PanicLeft
    /\ Before.total_ops >= 1
    /\ pos + 1 < Len(ops)

\* the machine after at most k iterations of the loop run without a step limit
RECURSIVE RunUnlimited(_, _, _, _)
RunUnlimited(o, preview, m, k) ==
    IF k = 0 \/ m.status # "running" \/ ~LoopCond(o, << >>, m) THEN m
    ELSE RunUnlimited(o, preview, Exec(o, preview, m), k - 1)

\* C8: with a step limit K the step counter never exceeds K; a run that would
\* not complete within K steps leaves the loop after exactly K steps, with
\* position, pointer, cells, remaining input and output equal to those of
\* the run without a limit after its first K steps.  Every instruction
\* executed, a taken bracket jump included, counts as one step.
C8_StepLimit ==
    /\ (Stepped /\ status = "running") => total_ops = Before.total_ops + 1
    /\ max_steps # << >> =>
          LET K == max_steps[1]
              U == RunUnlimited(ops, show_preview, InitMachine(line), K)
          IN /\ total_ops <= K
             /\ (status = "running" /\ total_ops = K) => ENABLED Exit
             /\ (status = "exited" /\ U.status = "running" /\ U.total_ops = K) =>
                   /\ total_ops = K
                   /\ pos = U.pos
                   /\ ptr = U.ptr
                   /\ data = U.data
                   /\ input = U.input
                   /\ output = U.output

\* C8 witness: a run stopped by its limit inside a loop, right after a taken
\* backward jump
C8_Witness ==
    /\ status = "exited"
    /\ max_steps # << >>
    /\ total_ops = max_steps[1]
    /\ total_ops >= 3
    /\ pos < Len(ops)
    /\ Stepped
    /\ get(ops, Before.pos) = Close
    /\ pos <= Before.pos

Count(o, n, x) == Cardinality({i \in 1..n : o[i] = x})

\* C9: cell arithmetic wraps modulo 256 and never fails: from 0, N increments
\* give N mod 256 and N decrements give (-N) mod 256; an increment followed
\* by a decrement, or the reverse, restores the cell for every value.
C9_CellArithmeticWraps ==
    /\ ~Panicked(status)
    /\ data[1] = (Count(ops, pos, Incr) - Count(ops, pos, Decr)) % CellMod
    /\ data[1] \in 0..255
    /\ decr(incr(Machine)).data = data
    /\ incr(decr(Machine)).data = data

\* C9 witness: 256 increments of a fresh cell brought it back to 0
C9_Witness ==
    /\ pos = 256
    /\ Count(ops, pos, Incr) = 256
    /\ Dispatched(Incr)
    /\ Before.data[1] = 255
    /\ data[1] = 0

\* C10: an input instruction executed with no input left changes no cell, not
\* the pointer and not the output, does not halt or fail, and execution
\* continues at the next instruction with the step counter increased by 1.
C10_InputAtEndIsNoOp ==
    (Dispatched(In) /\ Before.input = << >>) =>
        /\ status = "running"
        /\ data = Before.data
        /\ ptr = Before.ptr
        /\ output = Before.output
        /\ input = << >>
        /\ pos = Before.pos + 1
        /\ total_ops = Before.total_ops + 1

\* C10 witness: an input instruction met the end of the input on a non-zero cell
C10_Witness ==
    /\ Dispatched(In)
    /\ Before.input = << >>
    /\ InRange(Before)
    /\ read(Before) # 0
    /\ status = "running"

\* C11: input is consumed first in, first out: the k-th input instruction of
\* a run, k <= n, writes the k-th element of the supplied line into the
\* current cell and removes it from the remaining input.
C11_InputIsFifo ==
    (Dispatched(In) /\ Before.input # << >> /\ InRange(Before)) =>
        LET k == Len(line) - Len(Before.input) + 1
        IN /\ status = "running"
           /\ data[ptr + 1] = line[k]
           /\ Reverse(input) = SubSeq(line, k + 1, Len(line))

\* C13: the preview only observes: a step taken with the preview enabled, on
\* a pointer that is a valid index of the tape, leaves the machine as the
\* same step without the preview does, and fails only if that one fails.
C13_PreviewIsObservational ==
    (show_preview /\ Stepped /\ status # "exited" /\ InRange(Before)) =>
        Machine = Exec(ops, FALSE, Before)

\* C14: on any halt, a fatal one included, the summary is reported: the
\* number of steps executed and the output accumulated up to the halt.
C14_SummaryOnEveryHalt ==
    (status = "exited" \/ Panicked(status)) =>
        /\ summary.printed
        /\ summary.steps = total_ops
        /\ summary.out = output

\* C15: the tape is changed only by the instructions meant to change it: an
\* output, loop-open or loop-close step leaves pointer, tape length and cells
\* unchanged; an increment, decrement or input step leaves the pointer and
\* every cell but the current one unchanged; a move step changes the pointer
\* by exactly 1 and leaves every existing cell unchanged.  The program is
\* never modified during a run.
C15_FrameEffects ==
    [][/\ ops' = ops
       /\ IF status = "running" /\ LoopCond(ops, max_steps, Machine)
          THEN LET op == get(ops, pos)
               IN /\ op \in {Out, Open, Close} => (ptr' = ptr /\ data' = data)
                  /\ op \in {Incr, Decr, In} =>
                        /\ ptr' = ptr
                        /\ Len(data') = Len(data)
                        /\ \A i \in 1..Len(data) : i # ptr + 1 => data'[i] = data[i]
                  /\ (op \in {Left, Right} /\ status' = "running") =>
                        /\ ptr' = (IF op = Right THEN ptr + 1 ELSE ptr - 1)
                        /\ Len(data') >= Len(data)
                        /\ \A i \in 1..Len(data) : data'[i] = data[i]
          ELSE ptr' = ptr /\ data' = data]_vars

\* C15 witness: an input step changed the current cell next to a non-zero cell
C15_Witness ==
    /\ Dispatched(In)
    /\ status = "running"
    /\ data # Before.data
    /\ \E i \in 1..Len(data) : i # ptr + 1 /\ data[i] # 0

\* the cell values met at the output steps among the first k steps from m
RECURSIVE Emitted(_, _, _, _)
Emitted(o, preview, m, k) ==
    IF k = 0 THEN << >>
    ELSE LET rest == Emitted(o, preview, Exec(o, preview, m), k - 1)
         IN IF get(o, m.pos) = Out THEN <<read(m)>> \o rest ELSE rest

\* C16: the output is append-only and exact: an output step appends exactly
\* the value of the current cell, no other instruction changes the output,
\* and at every point the output is the sequence of the current-cell values
\* met at the output steps executed so far, in order.
C16_OutputAppendOnly ==
    /\ (Stepped /\ status # "exited") =>
          IF get(ops, Before.pos) = Out /\ status = "running"
          THEN output = Append(Before.output, read(Before))
          ELSE output = Before.output
    /\ output = Emitted(ops, show_preview, InitMachine(line), total_ops)
    /\ status = "exited" => summary.out = output

\* C16 witness: a second output step appended a value different from the first
C16_Witness ==
    /\ Dispatched(Out)
    /\ status = "running"
    /\ Len(output) >= 2
    /\ output[1] # output[Len(output)]

\* C18: in a well-formed program the position stays within the program:
\* 0 <= pos <= len between steps, every fetch and every probe of a bracket
\* scan uses an index in 0..len-1, and a run without a step limit that leaves
\* the loop does so with pos = len.
C18_PositionInProgram ==
    WellFormed(ops) =>
        /\ 0 <= pos /\ pos <= Len(ops)
        /\ (status = "running" /\ pos < Len(ops) /\ get(ops, pos) = Open) =>
              ScanForward(ops, pos + 1, 0) \in (pos + 1)..(Len(ops) - 1)
        /\ (status = "running" /\ pos < Len(ops) /\ get(ops, pos) = Close) =>
              ScanBackward(ops, pos - 1, 0) \in 0..(pos - 1)
        /\ ((Dispatched(Open) \/ Dispatched(Close)) /\ InRange(Before)) =>
              status = "running"
        /\ (status = "exited" /\ max_steps = << >>) => pos = Len(ops)

\* C18 witness: a run without a limit left the loop at the end of a program
\* with a loop, after at least one taken jump
C18_Witness ==
    /\ WellFormed(ops)
    /\ Contains(ops, Open)
    /\ status = "exited"
    /\ max_steps = << >>
    /\ pos = Len(ops)
    /\ total_ops # Len(ops)

\* the number of increments of a program of n increments followed by [-]
LoopN == Len(ops) - 3

\* C12: n increments (1 <= n <= 255) followed by [-], run on a fresh tape
\* without a step limit, terminate normally with pos = len and cell 0 = 0,
\* the body - having been executed exactly n times: cell 0 rises to n, every
\* pass of the body lowers it by 1, and the run ends after n + 1 + 2n steps.
C12_LoopTerminates ==
    /\ [](LoopN <= CellMod - 1 =>
            /\ ~Panicked(status)
            /\ pos <= LoopN => (total_ops = pos /\ data[1] = pos)
            /\ pos = LoopN + 1 => (data[1] >= 1 /\ total_ops = LoopN + 1 + 2 * (LoopN - data[1]))
            /\ pos = LoopN + 2 => total_ops = LoopN + 2 + 2 * (LoopN - 1 - data[1])
            /\ status = "exited" =>
                  /\ pos = Len(ops)
                  /\ data[1] = 0
                  /\ total_ops = LoopN + 1 + 2 * LoopN)
    /\ (LoopN <= CellMod - 1) ~> (status = "exited")

\* C12 witness: +[-] has ended after its 4 steps with cell 0 back at 0
C12_Witness ==
    /\ ops = <<Incr, Open, Decr, Close>>
    /\ status = "exited"
    /\ pos = 4
    /\ total_ops = 4
    /\ data[1] = 0
    /\ Before.data[1] = 0
    /\ get(ops, Before.pos) = Close

\* the first character of the line of text s that holds position i
LineStart(s, i) ==
    CHOOSE j \in 1..i :
        /\ (j = 1 \/ s[j - 1] = "\n")
        /\ \A k \in j..(i - 1) : s[k] # "\n"

\* position i of s holds an accepted character on a line not beginning with //
Kept(s, i) ==
    /\ s[i] \in {"<", ">", "+", "-", ".", ",", "[", "]"}
    /\ LET j == LineStart(s, i)
       IN ~(j + 1 <= Len(s) /\ s[j] = "/" /\ s[j + 1] = "/")

\* the kept characters among the first i of s, in source order
RECURSIVE KeptPrefix(_, _)
KeptPrefix(s, i) ==
    IF i = 0 THEN << >>
    ELSE KeptPrefix(s, i - 1) \o (IF Kept(s, i) THEN <<s[i]>> ELSE << >>)

\* C17: the instruction string is the source text without the lines that
\* begin with // and, from the other lines, without every character that is
\* not one of the eight accepted ones, in source order; decoding therefore
\* never meets an illegal character.
C17_SourceFiltering ==
    status # "loading" =>
        /\ FilterSource(program_string) = KeptPrefix(program_string, Len(program_string))
        /\ status = "running"
        /\ Len(ops) = Len(FilterSource(program_string))
        /\ \A i \in 1..Len(ops) :
              ops[i] \in Op /\ to_char(ops[i]) = FilterSource(program_string)[i]

\* C17 witness: a file with a comment line holding an instruction, followed
\* by a line with an instruction, has been loaded
C17_Witness ==
    /\ program_string = <<"/", "/", "+", "\n", "]">>
    /\ status = "running"
    /\ ops = <<Close>>

====
